---- MODULE Spec2Model ----
(***************************************************************************)
(* Texel Density Tool (src/texelGetSet.py): the dialog MyWindow with its   *)
(* three handlers saveTexelDensity, set_texel_density and getTexelDensity, *)
(* run against a host scene holding one polygon mesh.                      *)
(*                                                                         *)
(* Numbers.  Python floats are modelled by exact rationals <<n, d>> in     *)
(* lowest terms.  World coordinates are integers, UV coordinates are       *)
(* integers in units of 1/UVDen, and every edge of the scene has a length  *)
(* whose square is a perfect square, so math.sqrt is exact on the inputs   *)
(* the model draws.                                                        *)
(* Texts.  The contents of a QLineEdit is a sequence of one-character      *)
(* strings; str() and int() are modelled character by character.           *)
(* None is the empty sequence <<>>, an integer n held in an optional       *)
(* attribute is <<n>>.                                                     *)
(***************************************************************************)
EXTENDS Integers, Sequences, FiniteSets, TLC

\* Longest mesh, in edges, that Init draws edge by edge.
MaxEdges == 2

\* defaultTextureRes of set_texel_density and of getTexelDensity.
defaultTextureRes == 2048

\* Denominator of the UV coordinates of the scene (UV 0.1 is 2048/20480).
UVDen == 10 * defaultTextureRes

VARIABLES
    scene,                          \* host: object name -> its mesh (a sequence of edges)
    sel,                            \* host: the selection, cmds.ls(sl=True)
    targetTexelDensity,             \* self.targetTexelDensity: <<>> (None) or <<n>>
    setTexelDensity_textField,      \* text of the target field
    currentTexelDensity_textField,  \* text of the current-density field
    lastOp,                         \* the handler that ran last: "none", "save", "set", "get"
    lastResult,                     \* how it ended: "ok" or the exception raised
    unfoldCalls,                    \* the cmds.unfold calls the last handler made
    usesOfTarget,                   \* history: requests that consumed the target since it was entered (capped at 2)
    measures                        \* history: the last two measure requests since the scene was last rescaled

vars == <<scene, sel, targetTexelDensity, setTexelDensity_textField,
          currentTexelDensity_textField, lastOp, lastResult, unfoldCalls,
          usesOfTarget, measures>>

None == <<>>

-----------------------------------------------------------------------------
(* Arithmetic *)

Abs(n) == IF n < 0 THEN -n ELSE n

Min(a, b) == IF a < b THEN a ELSE b

RECURSIVE GCD(_, _)
GCD(a, b) == IF b = 0 THEN a ELSE GCD(b, a % b)

\* the rational n/d (d # 0) in lowest terms with a positive denominator
Rat(n, d) ==
    LET g == GCD(Abs(n), Abs(d))
        s == IF d < 0 THEN -1 ELSE 1
    IN  <<(s * n) \div g, (s * d) \div g>>

RatAdd(p, q) == Rat(p[1] * q[2] + q[1] * p[2], p[2] * q[2])

RatMul(p, q) == Rat(p[1] * q[1], p[2] * q[2])

\* largest r in lo..hi with r*r <= n
RECURSIVE SqrtIn(_, _, _)
SqrtIn(n, lo, hi) ==
    IF lo >= hi THEN lo
    ELSE LET mid == (lo + hi + 1) \div 2
         IN  IF mid * mid <= n THEN SqrtIn(n, mid, hi) ELSE SqrtIn(n, lo, mid - 1)

\* math.sqrt on a perfect square
Sqrt(n) == SqrtIn(n, 0, Min(n, 46340))

\* round(p/q) of Python 3: to the nearest integer, a tie to the even one
Round(p) ==
    LET fl == p[1] \div p[2]
        r2 == 2 * (p[1] % p[2])
    IN  IF r2 < p[2] THEN fl
        ELSE IF r2 > p[2] THEN fl + 1
        ELSE IF fl % 2 = 0 THEN fl ELSE fl + 1

-----------------------------------------------------------------------------
(* Texts *)

Digits == <<"0", "1", "2", "3", "4", "5", "6", "7", "8", "9">>

IsDigit(c) == \E i \in 1..10 : Digits[i] = c

DigitVal(c) == (CHOOSE i \in 1..10 : Digits[i] = c) - 1

RECURSIVE NatToStr(_)
NatToStr(n) ==
    IF n < 10 THEN <<Digits[n + 1]>>
    ELSE NatToStr(n \div 10) \o <<Digits[(n % 10) + 1]>>

\* str(n) for an int n
IntToStr(n) == IF n < 0 THEN <<"-">> \o NatToStr(-n) ELSE NatToStr(n)

RECURSIVE Strip(_)
Strip(t) ==
    IF t = <<>> THEN t
    ELSE IF Head(t) = " " THEN Strip(Tail(t))
    ELSE IF t[Len(t)] = " " THEN Strip(SubSeq(t, 1, Len(t) - 1))
    ELSE t

Unsigned(t) == IF t # <<>> /\ Head(t) \in {"+", "-"} THEN Tail(t) ELSE t

\* whether int(t) returns (otherwise it raises ValueError)
IsIntLiteral(t) ==
    LET u == Unsigned(Strip(t))
    IN  /\ u # <<>>
        /\ \A i \in 1..Len(u) : IsDigit(u[i])

RECURSIVE DigitsVal(_, _)
DigitsVal(u, acc) ==
    IF u = <<>> THEN acc ELSE DigitsVal(Tail(u), 10 * acc + DigitVal(Head(u)))

\* int(t) for a literal t
ParseInt(t) ==
    LET s == Strip(t)
        m == DigitsVal(Unsigned(s), 0)
    IN  IF Head(s) = "-" THEN -m ELSE m

-----------------------------------------------------------------------------
(* The host scene *)

Objects == {"pCube1"}

\* the selections the user can make: whole mesh objects, or nothing
Selections == {<<>>, <<"pCube1">>}

Origin == <<0, 0, 0>>

\* An edge: its two vertices (world positions) and the UV coordinates that
\* polyListComponentConversion(toUV) gives for it, 2 inside a shell.
I100  == [a |-> Origin, b |-> <<1, 0, 0>>, uvs |-> <<<<0, 0>>, <<1000, 0>>>>]
I200  == [a |-> Origin, b |-> <<0, 1, 0>>, uvs |-> <<<<0, 0>>, <<0, 2000>>>>]
I300  == [a |-> Origin, b |-> <<0, 3, 4>>, uvs |-> <<<<0, 0>>, <<9000, 12000>>>>]
I2048 == [a |-> Origin, b |-> <<1, 0, 0>>, uvs |-> <<<<0, 0>>, <<2048, 0>>>>]
IZero == [a |-> Origin, b |-> Origin, uvs |-> <<<<0, 0>>, <<1000, 0>>>>]
B3    == [a |-> Origin, b |-> <<1, 0, 0>>, uvs |-> <<<<0, 0>>, <<1000, 0>>, <<5000, 0>>>>]
BZero == [a |-> Origin, b |-> Origin, uvs |-> <<<<0, 0>>, <<0, 0>>, <<5000, 0>>, <<5000, 0>>>>]

EdgeKinds == {I100, IZero, B3, BZero}

SeqsUpTo(S, n) == UNION {[1..k -> S] : k \in 0..n}

\* the meshes a scene may hold: every sequence of at most MaxEdges edges, the
\* one-edge mesh of density 204.8 and the three-edge mesh of densities 100,
\* 200, 300
Meshes == SeqsUpTo(EdgeKinds, MaxEdges) \cup {<<I2048>>, <<I100, I200, I300>>}

SameTopology(m1, m2) ==
    /\ Len(m1) = Len(m2)
    /\ \A i \in 1..Len(m1) :
          /\ m1[i].a = m2[i].a
          /\ m1[i].b = m2[i].b
          /\ Len(m1[i].uvs) = Len(m2[i].uvs)

\* cmds.unfold moves UV coordinates only; the layout it ends with is the host's
UnfoldLayouts(m) == {m2 \in Meshes : SameTopology(m, m2)}

-----------------------------------------------------------------------------
(* Name lookup of Python: a bare name in a method body is looked up in the *)
(* function's scopes, the module's globals and the builtins; the body of   *)
(* the enclosing class is not a scope of its methods.                      *)

ModuleGlobals ==
    {"omui", "om", "cmds", "math", "__version__", "maya_main_window",
     "MyWindow", "show_dialog", "dialog"}

ClassAttributes ==
    {"__init__", "saveTexelDensity", "set_texel_density", "getDistance2D",
     "getDistance3D", "getTexelDensity"}

ResolvesInMethod(name) == name \in ModuleGlobals

-----------------------------------------------------------------------------
(* MyWindow *)

Sq(x) == x * x

\* distance in UV space, in UV units
getDistance2D(uvs) ==
    LET a == uvs[1]
        b == uvs[2]
    IN  Rat(Sqrt(Sq(a[1] - b[1]) + Sq(a[2] - b[2])), UVDen)

\* distance in world space
getDistance3D(verts) ==
    LET a == verts[1]
        b == verts[2]
    IN  Sqrt(Sq(a[1] - b[1]) + Sq(a[2] - b[2]) + Sq(a[3] - b[3]))

Raised(e) == [exc |-> e, numInternalEdges |-> 0, texelDensity |-> <<0, 1>>]

\* the loop of getTexelDensity from edge i on
RECURSIVE EdgeLoop(_, _, _, _)
EdgeLoop(edges, i, numInternalEdges, texelDensity) ==
    IF i > Len(edges)
    THEN [exc |-> "ok", numInternalEdges |-> numInternalEdges,
          texelDensity |-> texelDensity]
    ELSE
      LET edge  == edges[i]
          verts == <<edge.a, edge.b>>
          uvs   == edge.uvs
      IN  IF ~ResolvesInMethod("getDistance3D") THEN Raised("NameError")
          ELSE
            LET edgeLen == getDistance3D(verts)
            IN  IF edgeLen = 0 THEN Raised("ZeroDivisionError")
                ELSE
                  LET edgeLenToUnitRatio == Rat(1, edgeLen)
                  IN  IF Len(uvs) = 2
                      THEN IF ~ResolvesInMethod("getDistance2D")
                           THEN Raised("NameError")
                           ELSE
                             LET uvEdgeLen          == getDistance2D(uvs)
                                 uvEdgeTexelDensity == RatMul(Rat(defaultTextureRes, 1), uvEdgeLen)
                                 edgeTexelDensity   == RatMul(uvEdgeTexelDensity, edgeLenToUnitRatio)
                             IN  EdgeLoop(edges, i + 1, numInternalEdges + 1,
                                          RatAdd(texelDensity, edgeTexelDensity))
                      ELSE EdgeLoop(edges, i + 1, numInternalEdges, texelDensity)

\* texelDensityOf with a bug: the handler starts, as set_texel_density does,
\* by dividing the stored target by the resolution.
texelDensityOf_readsTarget(selection, sc) ==
    IF selection = <<>> THEN [exc |-> "IndexError", value |-> 0]
    ELSE IF targetTexelDensity = None THEN [exc |-> "TypeError", value |-> 0]
    ELSE
      LET r == EdgeLoop(sc[selection[1]], 1, 0, <<0, 1>>)
      IN  IF r.exc # "ok" THEN [exc |-> r.exc, value |-> 0]
          ELSE IF r.numInternalEdges = 0
          THEN [exc |-> "ZeroDivisionError", value |-> 0]
          ELSE [exc |-> "ok",
                value |-> Round(Rat(r.texelDensity[1],
                                    r.texelDensity[2] * r.numInternalEdges))]

\* getTexelDensity up to the rounded average: [exc, value]
texelDensityOf(selection, sc) ==
    IF selection = <<>> THEN [exc |-> "IndexError", value |-> 0]
    ELSE
      LET selectedObject == selection[1]
          r == EdgeLoop(sc[selectedObject], 1, 0, <<0, 1>>)
      IN  IF r.exc # "ok" THEN [exc |-> r.exc, value |-> 0]
          ELSE IF r.numInternalEdges = 0
          THEN [exc |-> "ZeroDivisionError", value |-> 0]
          ELSE [exc |-> "ok",
                value |-> Round(Rat(r.texelDensity[1],
                                    r.texelDensity[2] * r.numInternalEdges))]

\* scaleTarget with a bug: floor division, the "/" of Python 2 on integers
scaleTarget_floorDiv(texDensity) == Rat(texDensity \div defaultTextureRes, 1)

\* scaleTarget = texDensity / defaultTextureRes (true division)
scaleTarget(texDensity) == Rat(texDensity, defaultTextureRes)

\* the loop "for obj in sel: cmds.unfold(obj, ..., s=scaleTarget)": the set of
\* ways it can end.  Each call either fails in the host (RuntimeError, the
\* loop is left) or leaves the object with some layout of the same topology.
RECURSIVE UnfoldLoop(_, _, _, _)
UnfoldLoop(objs, sc, calls, s) ==
    IF objs = <<>> THEN {[scene |-> sc, calls |-> calls, exc |-> "ok"]}
    ELSE
      LET obj == Head(objs)
          c   == Append(calls, [obj |-> obj, s |-> s])
      IN  {[scene |-> sc, calls |-> c, exc |-> "RuntimeError"]}
          \cup UNION {UnfoldLoop(Tail(objs), [sc EXCEPT ![obj] = m2], c, s) :
                        m2 \in UnfoldLayouts(sc[obj])}

\* history: the last entry of h and rec
Latest(h, rec) == IF h = <<>> THEN <<rec>> ELSE <<h[Len(h)], rec>>

\* what the user may type into the target field
TypedTexts ==
    {<<>>, <<"-", "5">>, <<"0">>, <<"1", "0", "2", "4">>,
     <<" ", "2", "0", "4", "8">>}

Init ==
    /\ scene \in [Objects -> Meshes]
    /\ sel \in Selections
    /\ targetTexelDensity = None
    /\ setTexelDensity_textField = <<>>
    /\ currentTexelDensity_textField = <<>>
    /\ lastOp = "none"
    /\ lastResult = "ok"
    /\ unfoldCalls = <<>>
    /\ usesOfTarget = 0
    /\ measures = <<>>

\* the user changes the selection in the host
Select ==
    /\ \E s \in Selections : s # sel /\ sel' = s
    /\ lastOp' = "select"
    /\ lastResult' = "ok"
    /\ unfoldCalls' = <<>>
    /\ UNCHANGED <<scene, targetTexelDensity, setTexelDensity_textField,
                   currentTexelDensity_textField, usesOfTarget, measures>>

\* the user edits the target field; editingFinished runs saveTexelDensity
saveTexelDensity ==
    \E t \in TypedTexts :
       /\ setTexelDensity_textField' = t
       /\ IF IsIntLiteral(t)
          THEN /\ targetTexelDensity' = <<ParseInt(t)>>
               /\ lastResult' = "ok"
               /\ usesOfTarget' = 0
          ELSE /\ lastResult' = "ValueError"
               /\ UNCHANGED <<targetTexelDensity, usesOfTarget>>
       /\ lastOp' = "save"
       /\ unfoldCalls' = <<>>
       /\ UNCHANGED <<scene, sel, currentTexelDensity_textField, measures>>

\* set_texel_density with a change: the stored target is dropped once used
set_texel_density_consuming ==
    /\ lastOp' = "set"
    /\ IF targetTexelDensity = None
       THEN /\ lastResult' = "TypeError"
            /\ unfoldCalls' = <<>>
            /\ UNCHANGED <<scene, currentTexelDensity_textField, usesOfTarget,
                           measures, targetTexelDensity>>
       ELSE \E r \in UnfoldLoop(sel, scene, <<>>, scaleTarget(targetTexelDensity[1])) :
               /\ scene' = r.scene
               /\ unfoldCalls' = r.calls
               /\ lastResult' = r.exc
               /\ currentTexelDensity_textField' =
                     IF r.exc = "ok" THEN IntToStr(targetTexelDensity[1])
                     ELSE currentTexelDensity_textField
               /\ usesOfTarget' = Min(usesOfTarget + 1, 2)
               /\ measures' = IF r.calls = <<>> THEN measures ELSE <<>>
               /\ targetTexelDensity' = None
    /\ UNCHANGED <<sel, setTexelDensity_textField>>

\* button2: Set Texel Density
set_texel_density ==
    /\ lastOp' = "set"
    /\ IF targetTexelDensity = None
       THEN /\ lastResult' = "TypeError"
            /\ unfoldCalls' = <<>>
            /\ UNCHANGED <<scene, currentTexelDensity_textField, usesOfTarget,
                           measures>>
       ELSE \E r \in UnfoldLoop(sel, scene, <<>>, scaleTarget(targetTexelDensity[1])) :
               /\ scene' = r.scene
               /\ unfoldCalls' = r.calls
               /\ lastResult' = r.exc
               /\ currentTexelDensity_textField' =
                     IF r.exc = "ok" THEN IntToStr(targetTexelDensity[1])
                     ELSE currentTexelDensity_textField
               /\ usesOfTarget' = Min(usesOfTarget + 1, 2)
               /\ measures' = IF r.calls = <<>> THEN measures ELSE <<>>
    /\ UNCHANGED <<sel, targetTexelDensity, setTexelDensity_textField>>

\* getTexelDensity with a bug: clearing the target field also resets the
\* stored target
getTexelDensity_clearsTarget ==
    LET r   == texelDensityOf(sel, scene)
        rec == [sel |-> sel, exc |-> r.exc, value |-> r.value,
                hadTarget |-> targetTexelDensity # None]
    IN  /\ lastOp' = "get"
        /\ lastResult' = r.exc
        /\ currentTexelDensity_textField' =
              IF r.exc = "ok" THEN IntToStr(r.value)
              ELSE currentTexelDensity_textField
        /\ setTexelDensity_textField' = <<>>
        /\ targetTexelDensity' = None
        /\ unfoldCalls' = <<>>
        /\ usesOfTarget' =
              IF r.exc = "ok" /\ usesOfTarget = 0 THEN 1 ELSE usesOfTarget
        /\ measures' = Latest(measures, rec)
        /\ UNCHANGED <<scene, sel>>

\* button1: Get Texel Density
getTexelDensity ==
    LET r   == texelDensityOf(sel, scene)
        rec == [sel |-> sel, exc |-> r.exc, value |-> r.value,
                hadTarget |-> targetTexelDensity # None]
    IN  /\ lastOp' = "get"
        /\ lastResult' = r.exc
        /\ currentTexelDensity_textField' =
              IF r.exc = "ok" THEN IntToStr(r.value)
              ELSE currentTexelDensity_textField
        /\ setTexelDensity_textField' =
              IF r.exc = "ok" THEN <<>> ELSE setTexelDensity_textField
        /\ unfoldCalls' = <<>>
        /\ usesOfTarget' =
              IF r.exc = "ok" /\ usesOfTarget = 0 THEN 1 ELSE usesOfTarget
        /\ measures' = Latest(measures, rec)
        /\ UNCHANGED <<scene, sel, targetTexelDensity>>

Next ==
    \/ Select
    \/ saveTexelDensity
    \/ set_texel_density
    \/ getTexelDensity

Spec == Init /\ [][Next]_vars

-----------------------------------------------------------------------------
(* The error taxonomy of the specification, on the exceptions of the code. *)
(* NameError is a programming error and belongs to none of the four.       *)

NoSelectionError == {"IndexError"}

DegenerateMeshError == {"ZeroDivisionError"}

InvalidTargetError == {"TypeError", "ValueError"}

\* the mesh a measure request is about
Measured == scene[sel[1]]

WorldLen(e) == getDistance3D(<<e.a, e.b>>)

IsInterior(e) == Len(e.uvs) = 2

HasInterior(m) == \E i \in 1..Len(m) : IsInterior(m[i])

\* the density of an interior edge of non-zero length: 2048 * uvLen / worldLen
EdgeDensity(e) ==
    RatMul(RatMul(Rat(defaultTextureRes, 1), getDistance2D(e.uvs)), Rat(1, WorldLen(e)))

RECURSIVE InteriorSum(_)
InteriorSum(m) ==
    IF m = <<>> THEN <<0, 1>>
    ELSE IF IsInterior(Head(m)) THEN RatAdd(EdgeDensity(Head(m)), InteriorSum(Tail(m)))
    ELSE InteriorSum(Tail(m))

InteriorCount(m) == Cardinality({i \in 1..Len(m) : IsInterior(m[i])})

\* round(S / n) over the interior edges of m
ExpectedDensity(m) ==
    LET S == InteriorSum(m)
    IN  Round(Rat(S[1], S[2] * InteriorCount(m)))

\* The displayed density is the text of a non-negative integer.
ShowsDensity ==
    /\ IsIntLiteral(currentTexelDensity_textField)
    /\ ParseInt(currentTexelDensity_textField) >= 0

\* C1: a measure request on a mesh with at least one interior edge and no
\* zero-length edge completes without error and shows a non-negative integer
\* density in the current-density field.
C1_MeasureYieldsDensity ==
    (/\ lastOp = "get"
     /\ sel # <<>>
     /\ HasInterior(Measured)
     /\ \A i \in 1..Len(Measured) : WorldLen(Measured[i]) # 0)
    => (lastResult = "ok" /\ ShowsDensity)

\* C2: a measure request on a mesh without interior edges ends in
\* DegenerateMeshError and leaves the current-density display as it was.
C2_NoInteriorEdgeIsDegenerate ==
    [][(/\ lastOp' = "get"
        /\ sel # <<>>
        /\ ~HasInterior(Measured))
       => (/\ lastResult' \in DegenerateMeshError
           /\ currentTexelDensity_textField' = currentTexelDensity_textField)]_vars

\* C3: on a mesh with at least one interior edge and no zero-length edge the
\* value measure shows is round(S / n) over the interior edges: 200 for the
\* densities 100, 200, 300 and 205 for the single density 204.8.
C3_MeasureIsRoundedMean ==
    (/\ lastOp = "get"
     /\ sel # <<>>
     /\ HasInterior(Measured)
     /\ \A i \in 1..Len(Measured) : WorldLen(Measured[i]) # 0)
    => (/\ lastResult = "ok"
        /\ currentTexelDensity_textField = IntToStr(ExpectedDensity(Measured))
        /\ Measured = <<I100, I200, I300>> => currentTexelDensity_textField = <<"2", "0", "0">>
        /\ Measured = <<I2048>> => currentTexelDensity_textField = <<"2", "0", "5">>)

\* C4: every scale factor a normalize request hands to cmds.unfold for a
\* positive target t is t / 2048 exactly: 1 for 2048, 1/2 for 1024, and the
\* factor of 2*t is twice it.
C4_ScaleIsTargetOverReference ==
    \A i \in 1..Len(unfoldCalls) :
       LET s == unfoldCalls[i].s
           t == targetTexelDensity[1]
       IN  /\ targetTexelDensity # None
           /\ t > 0 =>
                /\ s[2] > 0
                /\ s[1] * defaultTextureRes = t * s[2]
                /\ t = 2048 => s = <<1, 1>>
                /\ t = 1024 => s = <<1, 2>>
                /\ scaleTarget(2 * t) = RatMul(<<2, 1>>, s)

\* C4 witness: a normalize request rescaled the selected mesh with target 1024.
C4_Witness ==
    /\ lastOp = "set"
    /\ lastResult = "ok"
    /\ targetTexelDensity = <<1024>>
    /\ Len(unfoldCalls) = 1
    /\ unfoldCalls[1].s = <<1, 2>>

\* C5: cmds.unfold is invoked only with a target that is set and strictly
\* positive: a normalize request whose target is unset, 0 or negative ends in
\* InvalidTargetError, rescales nothing and leaves the display as it was.
C5_NoRescaleWithoutPositiveTarget ==
    [][(/\ lastOp' = "set"
        /\ (targetTexelDensity = None \/ targetTexelDensity[1] <= 0))
       => (/\ lastResult' \in InvalidTargetError
           /\ unfoldCalls' = <<>>
           /\ currentTexelDensity_textField' = currentTexelDensity_textField)]_vars

\* C6: a measure request, or a normalize request with a positive target,
\* issued with nothing selected ends in NoSelectionError, rescales nothing and
\* changes neither text field.  (A normalize request whose target is unset or
\* not positive is the case of C5.)
C6_NoSelectionIsAnError ==
    [][(/\ sel = <<>>
        /\ \/ lastOp' = "get"
           \/ /\ lastOp' = "set"
              /\ targetTexelDensity # None
              /\ targetTexelDensity[1] > 0)
       => (/\ lastResult' \in NoSelectionError
           /\ unfoldCalls' = <<>>
           /\ currentTexelDensity_textField' = currentTexelDensity_textField
           /\ setTexelDensity_textField' = setTexelDensity_textField)]_vars

\* C7 as claimed: the target is not retained, so a normalize request that
\* rescales with a positive target is the first request to use that target
\* since it was entered.
C7_TargetNotRetained ==
    (/\ lastOp = "set"
     /\ unfoldCalls # <<>>
     /\ targetTexelDensity[1] > 0)
    => usesOfTarget <= 1

\* C7 as amended: the target is retained between requests.  Only a successful
\* enter-target changes the stored target, to the integer typed; measure and
\* normalize leave it as it is, and every rescale of a normalize request uses
\* the stored target over 2048, whether or not it was entered anew.
C7_TargetRetained ==
    [][/\ lastOp' \in {"get", "set", "select"} => targetTexelDensity' = targetTexelDensity
       /\ lastOp' = "save" =>
            IF lastResult' = "ok"
            THEN targetTexelDensity' = <<ParseInt(setTexelDensity_textField')>>
            ELSE targetTexelDensity' = targetTexelDensity
       /\ \A i \in 1..Len(unfoldCalls') :
            /\ lastOp' = "set"
            /\ targetTexelDensity # None
            /\ unfoldCalls'[i].s = Rat(targetTexelDensity[1], defaultTextureRes)]_vars

\* C7 witness: a second normalize request rescaled with a target entered
\* before the first one.
C7_Witness ==
    /\ lastOp = "set"
    /\ lastResult = "ok"
    /\ unfoldCalls # <<>>
    /\ targetTexelDensity = <<2048>>
    /\ usesOfTarget = 2

\* C8: two measure requests with the same selection and no rescale of the
\* scene between them end in the same outcome, the same exception or the same
\* density, whatever was entered as target in between.
C8_MeasureIdempotent ==
    (Len(measures) = 2 /\ measures[1].sel = measures[2].sel)
    => (/\ measures[1].exc = measures[2].exc
        /\ measures[1].value = measures[2].value)

\* C8 witness: two measure requests on the selected mesh, a target entered
\* between them.
C8_Witness ==
    /\ Len(measures) = 2
    /\ measures[1].sel = measures[2].sel
    /\ measures[1].sel # <<>>
    /\ ~measures[1].hadTarget
    /\ measures[2].hadTarget

\* C9: on a mesh with an interior edge, whose interior edges all have non-zero
\* length and one of whose boundary edges has zero length, measure succeeds
\* and shows round(S / n) over the interior edges.
C9_ZeroLengthBoundaryEdgeIsSkipped ==
    (/\ lastOp = "get"
     /\ sel # <<>>
     /\ HasInterior(Measured)
     /\ \A i \in 1..Len(Measured) : IsInterior(Measured[i]) => WorldLen(Measured[i]) # 0
     /\ \E i \in 1..Len(Measured) : ~IsInterior(Measured[i]) /\ WorldLen(Measured[i]) = 0)
    => (/\ lastResult = "ok"
        /\ currentTexelDensity_textField = IntToStr(ExpectedDensity(Measured)))

\* C10: a measure request, whether it succeeds or fails, leaves the scene, the
\* selection and the stored target unchanged and calls cmds.unfold not once;
\* the target field is left alone or cleared.
C10_MeasureFrame ==
    [][lastOp' = "get"
       => (/\ scene' = scene
           /\ sel' = sel
           /\ targetTexelDensity' = targetTexelDensity
           /\ unfoldCalls' = <<>>
           /\ setTexelDensity_textField' \in {setTexelDensity_textField, <<>>})]_vars

\* C10 witness: a measure request ran on the selected mesh while a target was
\* stored.
C10_Witness ==
    /\ lastOp = "get"
    /\ sel # <<>>
    /\ targetTexelDensity # None
    /\ setTexelDensity_textField # <<>>

====
